---- MODULE Spec2Model ----
(***************************************************************************)
(* compose_sql/sql.py: composition of SQL text from typed fragments.       *)
(*                                                                         *)
(* Python objects live in `heap`; an object's identity is its index.       *)
(* A text is a sequence of one-character strings.  A plain Python value is *)
(* [kind |-> "str", w |-> text] or [kind |-> "int", w |-> decimal text];   *)
(* a _Composable is [kind |-> class name, w |-> self._wrapped], where the  *)
(* _wrapped list of a _Composed holds heap indices.                        *)
(*                                                                         *)
(* `call` records the last call of a constructor, of format or of join,    *)
(* with its arguments and its outcome; `rendered` the as_string call made  *)
(* from outside and what it returned or raised; `stack` the as_string      *)
(* calls that have not returned yet.                                       *)
(***************************************************************************)
EXTENDS Integers, Sequences, FiniteSets, TLC

VARIABLES heap, call, rendered, stack

vars == <<heap, call, rendered, stack>>

(* ------------------------------ bounds --------------------------------- *)

MaxSegs == 3        \* pieces a template is put together from
MaxPartLen == 2     \* characters of one Identifier part
MaxParts == 2       \* parts handed to Identifier
MaxNameLen == 3     \* characters of a Placeholder name
MaxJoin == 3        \* elements of the input of join and of _Composed
MaxDeep == 340      \* objects of a session that nests one fragment again and again

(* ------------------------------ values --------------------------------- *)

Quote == "\""

PyStr(s) == [kind |-> "str", w |-> s]

PyInt == [kind |-> "int", w |-> <<"0">>]

ComposableKinds == {"_Composed", "SQL", "Identifier", "Placeholder"}

\* isinstance(el, _Composable)
IsComposable(o) == o.kind \in ComposableKinds

\* isinstance(v, str)
IsStr(v) == v.kind = "str"

SeqsUpTo(S, n) == UNION {[1..k -> S] : k \in 0..n}

RECURSIVE Flatten(_)
Flatten(ss) == IF ss = <<>> THEN <<>> ELSE Head(ss) \o Flatten(Tail(ss))

\* the outcome of a call: the heap after it, the exception class or "ok",
\* the returned object, the element an error message names, and the state
\* the call left its input producer in
NoProd == [kind |-> "none", items |-> <<>>, pos |-> 0, iters |-> 0,
           nexts |-> 0, log |-> <<>>, finished |-> FALSE]

Raise(h, exc, el) ==
    [heap |-> h, status |-> exc, ret |-> 0, err |-> el, prod |-> NoProd]

\* _Composable.__init__: the new object wraps `wrapped`
Alloc(h, k, wrapped) ==
    [heap |-> Append(h, [kind |-> k, w |-> wrapped]), status |-> "ok",
     ret |-> Len(h) + 1, err |-> 0, prod |-> NoProd]

(* ----------------------------- _Composed ------------------------------- *)

RECURSIVE FirstBad(_, _, _)
\* the first index at or after i whose element is no _Composable, else 0
FirstBad(h, seq, i) ==
    IF i > Len(seq) THEN 0
    ELSE IF ~IsComposable(h[seq[i]]) THEN i
    ELSE FirstBad(h, seq, i + 1)

ComposedInitNamesLast(h, seq) ==
    LET bad == {i \in 1..Len(seq) : ~IsComposable(h[seq[i]])}
    IN  IF bad # {} THEN Raise(h, "TypeError", seq[CHOOSE i \in bad : \A j \in bad : j <= i])
        ELSE Alloc(h, "_Composed", seq)

\* _Composed.__init__(seq)
ComposedInit(h, seq) ==
    LET b == FirstBad(h, seq, 1)
    IN  IF b # 0 THEN Raise(h, "TypeError", seq[b])
        ELSE Alloc(h, "_Composed", seq)

(* ------------------------- leaf constructors --------------------------- *)

\* SQL.__init__(string)
SQLInit(h, string) ==
    IF ~IsStr(string) THEN Raise(h, "TypeError", 0)
    ELSE Alloc(h, "SQL", string)

\* Identifier.__init__(*strings)
IdentifierInit(h, strings) ==
    IF strings = <<>> THEN Raise(h, "TypeError", 0)
    ELSE IF \E i \in 1..Len(strings) : ~IsStr(strings[i])
    THEN Raise(h, "TypeError", 0)
    ELSE Alloc(h, "Identifier", strings)

\* The characters of the model by the Unicode properties str.isidentifier
\* reads.  XID_Start holds the letters; XID_Continue holds XID_Start, the
\* decimal digits, the underscore, and further characters that are neither,
\* such as the middle dot U+00B7.
MiddleDot == "U+00B7"

Letter == {"a", "x"}

Digit == {"1"}

XIDStart == Letter

XIDContinue == XIDStart \cup Digit \cup {"_", MiddleDot}

isidentifierAnyFirst(s) ==
    /\ Len(s) > 0
    /\ \A i \in 1..Len(s) : s[i] \in XIDContinue

\* str.isidentifier()
isidentifier(s) ==
    /\ Len(s) > 0
    /\ s[1] \in XIDStart \cup {"_"}
    /\ \A i \in 2..Len(s) : s[i] \in XIDContinue

\* Placeholder.__init__(name); a name that is no str has no isidentifier
PlaceholderInit(h, name) ==
    IF ~IsStr(name) THEN Raise(h, "AttributeError", 0)
    ELSE IF ~isidentifier(name.w) THEN Raise(h, "ValueError", 0)
    ELSE Alloc(h, "Placeholder", name)

(* ------------------------------ rendering ------------------------------ *)

RECURSIVE duplicate_quote(_, _)
\* _quote.duplicate_quote: every `quote` character is yielded twice
duplicate_quote(value, quote) ==
    IF value = <<>> THEN <<>>
    ELSE (IF Head(value) = quote THEN <<Head(value), Head(value)>>
          ELSE <<Head(value)>>) \o duplicate_quote(Tail(value), quote)

QuoteNoDoubling(value) == <<Quote>> \o value \o <<Quote>>

\* _quote(value)
_quote(value) == <<Quote>> \o duplicate_quote(value, Quote) \o <<Quote>>

RECURSIVE StrJoin(_, _)
\* str.join: sep.join(texts)
StrJoin(sep, texts) ==
    IF texts = <<>> THEN <<>>
    ELSE IF Len(texts) = 1 THEN texts[1]
    ELSE texts[1] \o sep \o StrJoin(sep, Tail(texts))

Rendered(st, v) == [status |-> st, val |-> v]

IdentifierAsStringNoDot(o) ==
    Rendered("ok", PyStr(StrJoin(<<>>, [i \in 1..Len(o.w) |-> _quote(o.w[i].w)])))

\* Identifier.as_string: iterating a part that is no str raises
IdentifierAsString(o) ==
    IF \E i \in 1..Len(o.w) : ~IsStr(o.w[i])
    THEN Rendered("TypeError", PyInt)
    ELSE Rendered("ok",
             PyStr(StrJoin(<<".">>, [i \in 1..Len(o.w) |-> _quote(o.w[i].w)])))

\* Placeholder.as_string: ":%s" % self._wrapped
PlaceholderAsString(o) == Rendered("ok", PyStr(<<":">> \o o.w.w))

\* as_string of a fragment that wraps no fragment
LeafAsString(o) ==
    CASE o.kind = "SQL" -> Rendered("ok", o.w)
      [] o.kind = "Identifier" -> IdentifierAsString(o)
      [] o.kind = "Placeholder" -> PlaceholderAsString(o)

\* The interpreter counts the calls that have not returned and raises
\* RecursionError when one more would exceed sys.getrecursionlimit().
RecursionLimit == 1000

\* `stack` holds one entry for every as_string call that has not returned:
\* the object, the index of the element of _wrapped that is rendered next and
\* the text ''.join has put together so far.
Entry(r) == [ref |-> r, i |-> 1, acc |-> <<>>]

\* the calls an entry stands for: _Composed.as_string runs ''.join, which
\* runs the generator expression, which calls el.as_string
FramesOf(o) == IF o.kind = "_Composed" THEN 3 ELSE 1

\* the calls as_string makes below itself on a fragment that wraps no
\* fragment: Identifier.as_string runs a generator expression, which calls
\* _quote, which runs duplicate_quote
InnerFrames(o) == IF o.kind = "Identifier" THEN 3 ELSE 0

\* the calls in progress: that of the caller of as_string and those of the
\* entries, of which all but the last are of a _Composed
InProgress(h, st) ==
    1 + (IF st = <<>> THEN 0
         ELSE 3 * (Len(st) - 1) + FramesOf(h[st[Len(st)].ref]))

Running(r) == [ref |-> r, status |-> "running", val |-> PyInt]

Machine(st, rd) == [stack |-> st, rendered |-> rd]

\* the outermost as_string returns v.val or raises v.status
Finish(rd, v) ==
    Machine(<<>>, [ref |-> rd.ref, status |-> v.status, val |-> v.val])

\* el.as_string() is called on the object at r
Enter(h, st, rd, r) ==
    IF InProgress(h, st) + 1 > RecursionLimit
    THEN Finish(rd, Rendered("RecursionError", PyInt))
    ELSE Machine(Append(st, Entry(r)), rd)

\* an as_string call hands v to the callers in st: an exception passes through
\* all of them; a value goes to ''.join, which raises TypeError on what is no
\* str and appends a str to its text
Return(st, rd, v) ==
    IF v.status # "ok" \/ st = <<>> THEN Finish(rd, v)
    ELSE IF ~IsStr(v.val) THEN Finish(rd, Rendered("TypeError", PyInt))
    ELSE Machine([st EXCEPT ![Len(st)].i = @ + 1,
                            ![Len(st)].acc = @ \o v.val.w], rd)

\* one step of the innermost as_string call.  _Composed.as_string:
\* ''.join(el.as_string() for el in self._wrapped); an element without
\* as_string raises AttributeError.
Step(h, st, rd) ==
    LET top == st[Len(st)]
        o == h[top.ref]
        callers == SubSeq(st, 1, Len(st) - 1)
    IN  IF o.kind # "_Composed"
        THEN IF InProgress(h, st) + InnerFrames(o) > RecursionLimit
             THEN Finish(rd, Rendered("RecursionError", PyInt))
             ELSE Return(callers, rd, LeafAsString(o))
        ELSE IF InProgress(h, st) > RecursionLimit
        THEN Finish(rd, Rendered("RecursionError", PyInt))
        ELSE IF top.i > Len(o.w)
        THEN Return(callers, rd, Rendered("ok", PyStr(top.acc)))
        ELSE IF ~IsComposable(h[o.w[top.i]])
        THEN Finish(rd, Rendered("AttributeError", PyInt))
        ELSE Enter(h, st, rd, o.w[top.i])

(* --------------------- string.Formatter().parse ------------------------ *)

RECURSIVE FindBrace(_, _)
\* the index of the first "{" or "}" at or after i, Len(t) + 1 without one
FindBrace(t, i) ==
    IF i > Len(t) THEN i
    ELSE IF t[i] \in {"{", "}"} THEN i
    ELSE FindBrace(t, i + 1)

RECURSIVE FindChar(_, _, _)
\* the index of the first c at or after i, Len(t) + 1 without one
FindChar(t, c, i) ==
    IF i > Len(t) THEN i
    ELSE IF t[i] = c THEN i
    ELSE FindChar(t, c, i + 1)

RECURSIVE FieldNameEnd(_, _)
\* the scan of a field name from i: the index of the "}", ":" or "!" that
\* ends it; 0 for a "{" in the name or the end of the text.  After a "[" the
\* scan skips to the next "]".
FieldNameEnd(t, i) ==
    IF i > Len(t) THEN 0
    ELSE IF t[i] = "{" THEN 0
    ELSE IF t[i] = "[" THEN FieldNameEnd(t, FindChar(t, "]", i + 1))
    ELSE IF t[i] \in {"}", ":", "!"} THEN i
    ELSE FieldNameEnd(t, i + 1)

RECURSIVE FormatSpecEnd(_, _, _)
\* the scan of a format spec from i with `count` braces open: the index of
\* the "}" that closes the field, 0 at the end of the text
FormatSpecEnd(t, i, count) ==
    IF i > Len(t) THEN 0
    ELSE IF t[i] = "{" THEN FormatSpecEnd(t, i + 1, count + 1)
    ELSE IF t[i] = "}" THEN
        (IF count = 1 THEN i ELSE FormatSpecEnd(t, i + 1, count - 1))
    ELSE FormatSpecEnd(t, i + 1, count)

\* one tuple of the parse: (literal_text, field_name, format_spec, conversion);
\* field |-> FALSE stands for field_name None, conv |-> <<>> for conversion
\* None; next is where the parse goes on
ParseError == [error |-> TRUE, lit |-> <<>>, field |-> FALSE, name |-> <<>>,
               spec |-> <<>>, conv |-> <<>>, next |-> 0]

Markup(l, f, n, s, c, nx) ==
    [error |-> FALSE, lit |-> l, field |-> f, name |-> n, spec |-> s,
     conv |-> c, next |-> nx]

\* the field whose text starts at i (after its "{"), met after literal l
ParseField(t, l, i) ==
    LET e == FieldNameEnd(t, i)
        name == SubSeq(t, i, e - 1)
        \* where the format spec starts
        WithSpec(s, conv) ==
            LET c == FormatSpecEnd(t, s, 1)
            IN  IF c = 0 THEN ParseError
                ELSE Markup(l, TRUE, name, SubSeq(t, s, c - 1), conv, c + 1)
    IN  IF e = 0 THEN ParseError
        ELSE IF t[e] = "}" THEN Markup(l, TRUE, name, <<>>, <<>>, e + 1)
        ELSE IF t[e] = ":" THEN WithSpec(e + 1, <<>>)
        ELSE \* "!": a conversion character must follow, then "}" or ":"
             IF e + 1 > Len(t) THEN ParseError
             ELSE IF e + 2 > Len(t) THEN WithSpec(e + 2, <<t[e + 1]>>)
             ELSE IF t[e + 2] = "}"
                  THEN Markup(l, TRUE, name, <<>>, <<t[e + 1]>>, e + 3)
             ELSE IF t[e + 2] # ":" THEN ParseError
             ELSE WithSpec(e + 3, <<t[e + 1]>>)

\* the next tuple of string.Formatter().parse(t), read from i <= Len(t)
MarkupNext(t, i) ==
    LET b == FindBrace(t, i)
    IN  IF b > Len(t) THEN Markup(SubSeq(t, i, Len(t)), FALSE, <<>>, <<>>, <<>>, b)
        ELSE IF t[b] = "}" /\ (b = Len(t) \/ t[b + 1] # "}") THEN ParseError
        ELSE IF t[b] = "{" /\ b = Len(t) THEN ParseError
        ELSE IF t[b + 1] = t[b]
             THEN Markup(SubSeq(t, i, b), FALSE, <<>>, <<>>, <<>>, b + 2)
        ELSE ParseField(t, SubSeq(t, i, b - 1), b + 1)

(* -------------------------------- SQL ---------------------------------- *)

KeepLiteralAlways(literal_text) == TRUE

\* if literal_text:
KeepLiteral(literal_text) == literal_text # <<>>

RejectsSpecOnly(m) == m.spec # <<>>

\* if format_spec: raise ValueError ...; if conversion: raise ValueError ...
Rejects(m) == m.spec # <<>> \/ m.conv # <<>>

KwargsGetOrDefault(kwargs, field_name) ==
    IF field_name \in DOMAIN kwargs
    THEN [found |-> TRUE, val |-> kwargs[field_name]]
    ELSE [found |-> TRUE, val |-> 1]

\* kwargs[field_name]: the value, or KeyError (found |-> FALSE)
KwargsGet(kwargs, field_name) ==
    IF field_name \in DOMAIN kwargs
    THEN [found |-> TRUE, val |-> kwargs[field_name]]
    ELSE [found |-> FALSE, val |-> 0]

RECURSIVE FormatLoop(_, _, _, _, _, _)
\* the loop of SQL.format over the tuples parsed from index i on: h is the
\* heap with the SQL objects made so far, h0 the heap left when the call raises
FormatLoop(h0, h, t, i, kwargs, result) ==
    IF i > Len(t) THEN ComposedInit(h, result)
    ELSE LET m == MarkupNext(t, i)
             lit == SQLInit(h, PyStr(m.lit))
             h1 == IF KeepLiteral(m.lit) THEN lit.heap ELSE h
             result1 == IF KeepLiteral(m.lit) THEN Append(result, lit.ret)
                        ELSE result
             v == KwargsGet(kwargs, m.name)
         IN  IF m.error THEN Raise(h0, "ValueError", 0)
             ELSE IF Rejects(m) THEN Raise(h0, "ValueError", 0)
             ELSE IF ~m.field THEN FormatLoop(h0, h1, t, m.next, kwargs, result1)
             ELSE IF ~v.found THEN Raise(h0, "KeyError", 0)
             ELSE FormatLoop(h0, h1, t, m.next, kwargs, Append(result1, v.val))

\* SQL.format(**kwargs) of the SQL object at self
format(h, self, kwargs) ==
    LET r == FormatLoop(h, h, h[self].w.w, 1, kwargs, <<>>)
    IN  IF r.status = "ok" THEN r ELSE [r EXCEPT !.heap = h]

\* iter(seq): a list hands out a new iterator at its start, a generator
\* hands out itself
PyIter(seq) ==
    [seq EXCEPT !.iters = @ + 1,
                !.pos = IF seq.kind = "list" THEN 0 ELSE @,
                !.finished = IF seq.kind = "list" THEN FALSE ELSE @]

\* next(it): the next element, or StopIteration
PyNext(it) ==
    IF ~it.finished /\ it.pos < Len(it.items)
    THEN [stop |-> FALSE, val |-> it.items[it.pos + 1],
          it |-> [it EXCEPT !.pos = @ + 1, !.nexts = @ + 1,
                            !.log = Append(@, it.items[it.pos + 1])]]
    ELSE [stop |-> TRUE, val |-> 0,
          it |-> [it EXCEPT !.nexts = @ + 1, !.finished = TRUE]]

RECURSIVE JoinLoopSeparatorAfter(_, _, _, _)
JoinLoopSeparatorAfter(h, self, it, result) ==
    LET n == PyNext(it)
    IN  IF n.stop THEN [ComposedInit(h, result) EXCEPT !.prod = n.it]
        ELSE JoinLoopSeparatorAfter(h, self, n.it, result \o <<n.val, self>>)

RECURSIVE JoinLoop(_, _, _, _)
\* for i in it: result.append(self); result.append(i)
JoinLoop(h, self, it, result) ==
    LET n == PyNext(it)
    IN  IF n.stop THEN [ComposedInit(h, result) EXCEPT !.prod = n.it]
        ELSE JoinLoop(h, self, n.it, result \o <<self, n.val>>)

JoinSecondIterator(h, self, seq) ==
    LET it == PyIter(seq)
        n == PyNext(it)
    IN  IF n.stop THEN [ComposedInit(h, <<>>) EXCEPT !.prod = n.it]
        ELSE JoinLoop(h, self, PyIter(n.it), <<n.val>>)

\* SQL.join(seq) of the SQL object at self
join(h, self, seq) ==
    LET it == PyIter(seq)
        n == PyNext(it)
    IN  IF n.stop THEN [ComposedInit(h, <<>>) EXCEPT !.prod = n.it]
        ELSE JoinLoop(h, self, n.it, <<n.val>>)

(* ------------------------------ sessions ------------------------------- *)

\* the objects a session starts with: two SQL, an Identifier, a Placeholder,
\* and two values that are no _Composable
SeedHeap ==
    << [kind |-> "SQL", w |-> PyStr(<<",">>)],
       [kind |-> "SQL", w |-> PyStr(<<>>)],
       [kind |-> "Identifier", w |-> <<PyStr(<<"a">>)>>],
       [kind |-> "Placeholder", w |-> PyStr(<<"x">>)],
       PyStr(<<"a">>),
       PyInt >>

NoCall == [op |-> "none", args |-> <<>>, status |-> "ok", ret |-> 0,
           err |-> 0, prod |-> NoProd]

NoRender == [ref |-> 0, status |-> "none", val |-> PyInt]

\* the pieces templates are put together from, each with what it stands for:
\* literal text, a brace escape, a field (its name, whether a ":" or a "!"
\* follows the name, the format spec), or a brace on its own
Piece(txt, ty, lt, nm, co, ba, sp) ==
    [text |-> txt, type |-> ty, lit |-> lt, name |-> nm, colon |-> co,
     bang |-> ba, spec |-> sp]

Pieces ==
    << Piece(<<"a">>, "lit", <<"a">>, <<>>, FALSE, FALSE, <<>>),
       Piece(<<"{", "{">>, "esc", <<"{">>, <<>>, FALSE, FALSE, <<>>),
       Piece(<<"}", "}">>, "esc", <<"}">>, <<>>, FALSE, FALSE, <<>>),
       Piece(<<"{", "x", "}">>, "field", <<>>, <<"x">>, FALSE, FALSE, <<>>),
       Piece(<<"{", "y", "}">>, "field", <<>>, <<"y">>, FALSE, FALSE, <<>>),
       Piece(<<"{", "x", ":", "}">>, "field", <<>>, <<"x">>, TRUE, FALSE, <<>>),
       Piece(<<"{", "y", ":", "a", "}">>, "field", <<>>, <<"y">>, TRUE, FALSE, <<"a">>),
       Piece(<<"{", "x", "!", "a", "}">>, "field", <<>>, <<"x">>, FALSE, TRUE, <<>>),
       Piece(<<"{">>, "bad", <<>>, <<>>, FALSE, FALSE, <<>>) >>

TemplateText(ps) == Flatten([i \in 1..Len(ps) |-> Pieces[ps[i]].text])

\* the keyword arguments binding x to heap index vx and y to vy (0: not given)
Kwargs(vx, vy) ==
    [n \in (IF vx = 0 THEN {} ELSE {<<"x">>}) \cup (IF vy = 0 THEN {} ELSE {<<"y">>})
       |-> IF n = <<"x">> THEN vx ELSE vy]

\* values x and y are bound to in a session of SeedHeap
XValues == {0, 2, 5}

YValues == {0, 3, 6}

IdentifierChars == {"a", Quote, "."}

PartValues == {PyStr(s) : s \in SeqsUpTo(IdentifierChars, MaxPartLen)} \cup {PyInt}

NameChars == {"a", "1", "_", "-", MiddleDot}

NameValues == {PyStr(s) : s \in SeqsUpTo(NameChars, MaxNameLen)} \cup {PyInt}

StringValues == {PyStr(<<>>), PyStr(<<"a">>), PyInt}

Producer(k, its) ==
    [kind |-> k, items |-> its, pos |-> 0, iters |-> 0, nexts |-> 0,
     log |-> <<>>, finished |-> FALSE]

Refs(h) == 1..Len(h)

SQLRefs(h) == {r \in Refs(h) : h[r].kind = "SQL"}

(* ------------------------------ actions -------------------------------- *)

\* the record of a call that returned or raised r
Called(op, args, r) ==
    [op |-> op, args |-> args, status |-> r.status, ret |-> r.ret,
     err |-> r.err, prod |-> r.prod]

\* SQL(string)
NewSQL(h, strings) ==
    \E v \in strings :
        LET r == SQLInit(h, v)
        IN  /\ heap' = r.heap
            /\ call' = Called("SQL", [string |-> v], r)
            /\ rendered' = NoRender
            /\ UNCHANGED stack

\* Identifier(*strings)
NewIdentifier(h, inputs) ==
    \E strings \in inputs :
        LET r == IdentifierInit(h, strings)
        IN  /\ heap' = r.heap
            /\ call' = Called("Identifier", [strings |-> strings], r)
            /\ rendered' = NoRender
            /\ UNCHANGED stack

\* Placeholder(name)
NewPlaceholder(h, names) ==
    \E name \in names :
        LET r == PlaceholderInit(h, name)
        IN  /\ heap' = r.heap
            /\ call' = Called("Placeholder", [name |-> name], r)
            /\ rendered' = NoRender
            /\ UNCHANGED stack

\* _Composed(seq)
NewComposed(h, inputs) ==
    \E seq \in inputs :
        LET r == ComposedInit(h, seq)
        IN  /\ heap' = r.heap
            /\ call' = Called("_Composed", [seq |-> seq], r)
            /\ rendered' = NoRender
            /\ UNCHANGED stack

\* SQL(template).format(**kwargs)
Format(h, templates, xs, ys) ==
    \E ps \in templates, vx \in xs, vy \in ys :
        LET self == SQLInit(h, PyStr(TemplateText(ps)))
            kwargs == Kwargs(vx, vy)
            r == format(self.heap, self.ret, kwargs)
        IN  /\ heap' = IF r.status = "ok" THEN r.heap ELSE h
            /\ call' = Called("format",
                              [pieces |-> ps, self |-> self.ret, kwargs |-> kwargs], r)
            /\ rendered' = NoRender
            /\ UNCHANGED stack

\* sep.join(seq), seq a list or a one-shot generator
Join(h, kinds, inputs) ==
    \E self \in SQLRefs(h), k \in kinds, items \in inputs :
        LET r == join(h, self, Producer(k, items))
        IN  /\ heap' = r.heap
            /\ call' = Called("join", [self |-> self, kind |-> k, items |-> items], r)
            /\ rendered' = NoRender
            /\ UNCHANGED stack

\* el.as_string() is called from outside the library
RenderCall(refs) ==
    \E r \in refs :
        LET m == Enter(heap, <<>>, Running(r), r)
        IN  /\ IsComposable(heap[r])
            /\ rendered = NoRender
            /\ stack = <<>>
            /\ stack' = m.stack
            /\ rendered' = m.rendered
            /\ UNCHANGED <<heap, call>>

\* the rendering in progress goes on
RenderStep ==
    /\ stack # <<>>
    /\ LET m == Step(heap, stack, rendered)
       IN  /\ stack' = m.stack
           /\ rendered' = m.rendered
    /\ UNCHANGED <<heap, call>>

(* --------------------------- specifications ---------------------------- *)

\* A session that holds the seed objects, makes one call, and may render the
\* object the call returned.
Init ==
    /\ heap = SeedHeap
    /\ call = NoCall
    /\ rendered = NoRender
    /\ stack = <<>>

CallSQL == call = NoCall /\ NewSQL(heap, StringValues)

CallIdentifier ==
    call = NoCall /\ NewIdentifier(heap, SeqsUpTo(PartValues, MaxParts))

CallPlaceholder == call = NoCall /\ NewPlaceholder(heap, NameValues)

CallComposed ==
    call = NoCall /\ NewComposed(heap, SeqsUpTo(Refs(heap), MaxJoin))

CallFormat ==
    call = NoCall
    /\ Format(heap, SeqsUpTo(1..Len(Pieces), MaxSegs), XValues, YValues)

CallJoin ==
    call = NoCall
    /\ Join(heap, {"list", "generator"}, SeqsUpTo(Refs(heap), MaxJoin))

RenderResult == RenderCall({call.ret} \ {0})

Next ==
    \/ CallSQL
    \/ CallIdentifier
    \/ CallPlaceholder
    \/ CallComposed
    \/ CallFormat
    \/ CallJoin
    \/ RenderResult
    \/ RenderStep

Spec == Init /\ [][Next]_vars

\* A session that wraps a fragment in a _Composed, that one in another, and
\* so on until it holds MaxDeep objects, and then renders the outermost one.
DeepInit == Init

DeepWrap ==
    /\ Len(heap) < MaxDeep
    /\ NewComposed(heap, {<<IF call = NoCall THEN 1 ELSE call.ret>>})

DeepRender ==
    /\ Len(heap) = MaxDeep
    /\ RenderCall({call.ret})

DeepNext ==
    \/ DeepWrap
    \/ DeepRender
    \/ RenderStep

SpecDeep == DeepInit /\ [][DeepNext]_vars

(* ------------------------ claims: what is stated ----------------------- *)

\* a rendering was asked for and has returned or raised
RenderDone == rendered.status \notin {"none", "running"}

AllComposable(h, seq) == \A i \in 1..Len(seq) : IsComposable(h[seq[i]])

\* the first element of seq that is no _Composable
FirstOffending(h, seq) ==
    seq[CHOOSE i \in 1..Len(seq) :
            /\ ~IsComposable(h[seq[i]])
            /\ \A j \in 1..(i - 1) : IsComposable(h[seq[j]])]

\* a part quoted as the claims describe it: every double quote twice, every
\* other character as it is, between two double quotes
Quoted(p) ==
    <<Quote>>
    \o Flatten([i \in 1..Len(p) |-> IF p[i] = Quote THEN <<Quote, Quote>> ELSE <<p[i]>>])
    \o <<Quote>>

\* q(p1) . q(p2) . ... . q(pk)
QuotedPath(parts) ==
    Flatten([i \in 1..Len(parts) |->
                (IF i = 1 THEN <<>> ELSE <<".">>) \o Quoted(parts[i].w)])

RECURSIVE ScanQuoted(_, _, _)
\* the reading of a double-quoted SQL identifier whose opening quote stands
\* before index i: two quotes in a row stand for one, the first quote on its
\* own ends the identifier at `end`
ScanQuoted(q, i, name) ==
    IF i > Len(q) THEN [ok |-> FALSE, name |-> name, end |-> 0]
    ELSE IF q[i] # Quote THEN ScanQuoted(q, i + 1, Append(name, q[i]))
    ELSE IF i < Len(q) /\ q[i + 1] = Quote THEN ScanQuoted(q, i + 2, Append(name, Quote))
    ELSE [ok |-> TRUE, name |-> name, end |-> i]

RECURSIVE ScanPath(_, _, _)
\* the reading of quoted identifiers separated by dots, from index i on
ScanPath(q, i, names) ==
    IF i > Len(q) \/ q[i] # Quote THEN [ok |-> FALSE, names |-> names]
    ELSE LET s == ScanQuoted(q, i + 1, <<>>)
         IN  IF ~s.ok THEN [ok |-> FALSE, names |-> names]
             ELSE IF s.end = Len(q) THEN [ok |-> TRUE, names |-> Append(names, s.name)]
             ELSE IF q[s.end + 1] # "." THEN [ok |-> FALSE, names |-> names]
             ELSE ScanPath(q, s.end + 2, Append(names, s.name))

\* a valid identifier as the claim describes it
ValidName(s) ==
    /\ s # <<>>
    /\ s[1] \in Letter \cup {"_"}
    /\ \A i \in 2..Len(s) : s[i] \in Letter \cup Digit \cup {"_"}

\* a valid Python identifier: an underscore or a character of XID_Start,
\* then characters of XID_Continue
PythonIdentifier(s) ==
    /\ s # <<>>
    /\ Head(s) = "_" \/ Head(s) \in XIDStart
    /\ {s[i] : i \in 2..Len(s)} \subseteq XIDContinue

\* Placeholder(name) of a string is constructed exactly when valid(name), and
\* raises ValueError otherwise; a Placeholder renders to ":" and its name
PlaceholderAccepts(valid) ==
    /\ (call.op = "Placeholder" /\ IsStr(call.args.name)) =>
           IF valid
           THEN /\ call.status = "ok"
                /\ heap[call.ret] = [kind |-> "Placeholder", w |-> call.args.name]
           ELSE call.status = "ValueError" /\ call.ret = 0 /\ heap = SeedHeap
    /\ (call.op = "Placeholder" /\ RenderDone) =>
           /\ rendered.ref = call.ret
           /\ rendered.status = "ok"
           /\ rendered.val = PyStr(<<":">> \o call.args.name.w)

\* the template of a format call is made of literal text, brace escapes and
\* fields only
WellFormed(ps) == \A i \in 1..Len(ps) : Pieces[ps[i]].type # "bad"

FieldsOf(ps) == {i \in 1..Len(ps) : Pieces[ps[i]].type = "field"}

\* every field is a bare {name}
BareFields(ps) ==
    \A i \in FieldsOf(ps) : ~Pieces[ps[i]].colon /\ ~Pieces[ps[i]].bang

\* the field carries a format specification or a conversion flag
Suffixed(pc) == pc.colon \/ pc.bang

\* the field carries a format specification that is not empty, or a
\* conversion flag
Unsupported(pc) == pc.spec # <<>> \/ pc.bang

\* the fields that stop the call: unsupported, or with a name not bound
Stopping(ps, kwargs) ==
    {i \in FieldsOf(ps) :
        Unsupported(Pieces[ps[i]]) \/ Pieces[ps[i]].name \notin DOMAIN kwargs}

FirstStopping(ps, kwargs) ==
    CHOOSE i \in Stopping(ps, kwargs) : \A j \in Stopping(ps, kwargs) : i <= j

\* the values bound to the fields, in the order of the template
BoundValues(ps, kwargs) ==
    LET RECURSIVE Go(_)
        Go(i) == IF i > Len(ps) THEN <<>>
                 ELSE IF Pieces[ps[i]].type = "field"
                 THEN <<kwargs[Pieces[ps[i]].name]>> \o Go(i + 1)
                 ELSE Go(i + 1)
    IN  Go(1)

RECURSIVE Chunks(_, _, _)
\* what the Sequence of a well-formed template of bare fields lists: a
\* literal chunk ends at a field and after a brace escape; an empty chunk is
\* left out
Chunks(ps, i, run) ==
    LET Lit == IF run = <<>> THEN <<>> ELSE <<[type |-> "lit", text |-> run, name |-> <<>>]>>
        pc == Pieces[ps[i]]
    IN  IF i > Len(ps) THEN Lit
        ELSE IF pc.type = "lit" THEN Chunks(ps, i + 1, run \o pc.lit)
        ELSE IF pc.type = "esc"
        THEN <<[type |-> "lit", text |-> run \o pc.lit, name |-> <<>>]>>
             \o Chunks(ps, i + 1, <<>>)
        ELSE Lit \o <<[type |-> "field", text |-> <<>>, name |-> pc.name]>>
             \o Chunks(ps, i + 1, <<>>)

\* what a fragment that wraps no fragment is stated to render to
StatedText(o) ==
    CASE o.kind = "SQL" -> o.w.w
      [] o.kind = "Identifier" -> QuotedPath(o.w)
      [] o.kind = "Placeholder" -> <<":">> \o o.w.w

\* the template text with each escape as one brace and each field replaced
\* by the rendering of the fragment bound to it
Substituted(h, ps, kwargs) ==
    Flatten([i \in 1..Len(ps) |->
                IF Pieces[ps[i]].type = "field"
                THEN StatedText(h[kwargs[Pieces[ps[i]].name]])
                ELSE Pieces[ps[i]].lit])

\* the call is a format of a well-formed template of bare fields, each bound
\* to a fragment
PlainFormat ==
    /\ call.op = "format"
    /\ WellFormed(call.args.pieces)
    /\ BareFields(call.args.pieces)
    /\ \A i \in FieldsOf(call.args.pieces) :
           /\ Pieces[call.args.pieces[i]].name \in DOMAIN call.args.kwargs
           /\ IsComposable(heap[call.args.kwargs[Pieces[call.args.pieces[i]].name]])

\* the Sequence returned lists the chunks of the template: a new SQL object
\* for a literal chunk, the bound object itself for a field
ListsChunks ==
    LET w == heap[call.ret].w
        cs == Chunks(call.args.pieces, 1, <<>>)
    IN  /\ heap[call.ret].kind = "_Composed"
        /\ Len(w) = Len(cs)
        /\ \A i \in 1..Len(cs) :
              IF cs[i].type = "lit"
              THEN /\ w[i] > call.args.self
                   /\ heap[w[i]].kind = "SQL"
                   /\ heap[w[i]].w = PyStr(cs[i].text)
                   /\ cs[i].text # <<>>
              ELSE w[i] = call.args.kwargs[cs[i].name]

RendersSubstituted ==
    RenderDone =>
        /\ rendered.ref = call.ret
        /\ rendered.status = "ok"
        /\ rendered.val = PyStr(Substituted(heap, call.args.pieces, call.args.kwargs))

NoEmptyLiteralItem ==
    \A i \in 1..Len(heap[call.ret].w) :
        ~(heap[heap[call.ret].w[i]].kind = "SQL" /\ heap[heap[call.ret].w[i]].w = PyStr(<<>>))

Failed(exc) == call.status = exc /\ call.ret = 0 /\ heap = SeedHeap

(* ------------------------------- claims -------------------------------- *)

\* C1: sep.join of N fragments returns a Sequence of max(0, 2N-1) items: the
\* input fragments themselves, in order, at the odd places (counted from 1),
\* and sep itself at every even place.
C1_JoinInterleaves ==
    (call.op = "join" /\ AllComposable(heap, call.args.items)) =>
        LET n == Len(call.args.items)
            w == heap[call.ret].w
        IN  /\ call.status = "ok"
            /\ heap[call.ret].kind = "_Composed"
            /\ heap[call.args.self].kind = "SQL"
            /\ Len(w) = IF n = 0 THEN 0 ELSE 2 * n - 1
            /\ \A i \in 1..n : w[2 * i - 1] = call.args.items[i]
            /\ \A i \in 1..(n - 1) : w[2 * i] = call.args.self

C1_Witness ==
    /\ call.op = "join"
    /\ call.status = "ok"
    /\ call.args.items = <<3, 1, 4>>
    /\ heap[call.ret].w = <<3, call.args.self, 1, call.args.self, 4>>

\* C2: the rendering of an Identifier built from parts p1..pk is
\* q(p1).q(p2). ... .q(pk), q(p) being p between double quotes with each of
\* its double quotes doubled.
C2_IdentifierRender ==
    /\ (call.op = "Identifier" /\ call.status = "ok") =>
           /\ heap[call.ret].kind = "Identifier"
           /\ heap[call.ret].w = call.args.strings
    /\ (call.op = "Identifier" /\ RenderDone) =>
           /\ rendered.ref = call.ret
           /\ rendered.status = "ok"
           /\ rendered.val = PyStr(QuotedPath(call.args.strings))

C2_Witness ==
    /\ call.op = "Identifier"
    /\ call.args.strings = <<PyStr(<<"a", Quote>>), PyStr(<<>>)>>
    /\ rendered.status = "ok"
    /\ rendered.val = PyStr(<<Quote, "a", Quote, Quote, Quote, ".", Quote, Quote>>)

\* C3: read back as double-quoted SQL identifiers separated by dots, the
\* rendering of an Identifier is consumed whole, each closing quote being the
\* last character of its part's text, and gives back exactly the parts; a
\* part of quotes and dots does not end its own quoting early.
C3_QuotingRoundTrip ==
    (call.op = "Identifier" /\ RenderDone) =>
        LET back == ScanPath(rendered.val.w, 1, <<>>)
            one == ScanQuoted(rendered.val.w, 2, <<>>)
        IN  /\ back.ok
            /\ back.names = [i \in 1..Len(call.args.strings) |-> call.args.strings[i].w]
            /\ Len(call.args.strings) = 1 =>
                   /\ one.ok
                   /\ one.end = Len(rendered.val.w)
                   /\ one.name = call.args.strings[1].w

C3_Witness ==
    /\ call.op = "Identifier"
    /\ call.args.strings = <<PyStr(<<Quote, ".">>)>>
    /\ rendered.status = "ok"
    /\ ScanQuoted(rendered.val.w, 2, <<>>).end = 5

\* C4 as stated: for a well-formed template of bare fields, each bound to a
\* fragment, the Sequence lists the literal chunks and the bound fragments
\* themselves in order, renders to the substituted template, and holds no
\* SQL object with empty text.
C4_Original ==
    PlainFormat =>
        /\ call.status = "ok"
        /\ ListsChunks
        /\ RendersSubstituted
        /\ NoEmptyLiteralItem

\* C4 as amended: the same, except that only the items made from the
\* template's literal text are never empty; a field's item is the fragment
\* bound to it, which may be an SQL object with empty text.
C4_FormatLists ==
    PlainFormat =>
        /\ call.status = "ok"
        /\ ListsChunks
        /\ RendersSubstituted

C4_Witness ==
    /\ PlainFormat
    /\ call.args.pieces = <<2, 1, 4>>
    /\ call.args.kwargs = Kwargs(2, 3)
    /\ Len(heap[call.ret].w) = 3
    /\ rendered.status = "ok"
    /\ rendered.val = PyStr(<<"{", "a">>)

C6_Original ==
    (/\ call.op = "format"
     /\ WellFormed(call.args.pieces)
     /\ \E i \in FieldsOf(call.args.pieces) :
            Pieces[call.args.pieces[i]].name \notin DOMAIN call.args.kwargs)
    => Failed("KeyError")

\* C6 as amended: a format raises KeyError and returns nothing when the
\* first field of its template that is unsupported or not bound is a
\* supported field with a name that is not bound, whatever stands before it.
C6_MissingField ==
    (/\ call.op = "format"
     /\ WellFormed(call.args.pieces)
     /\ Stopping(call.args.pieces, call.args.kwargs) # {}
     /\ ~Unsupported(Pieces[call.args.pieces[FirstStopping(call.args.pieces, call.args.kwargs)]]))
    => Failed("KeyError")

C6_Witness ==
    /\ call.op = "format"
    /\ call.args.pieces = <<1, 4, 5>>
    /\ call.args.kwargs = Kwargs(2, 0)
    /\ Failed("KeyError")

\* no _Composed holds an element that is no _Composable
OnlyFragmentsInSequences ==
    \A r \in Refs(heap) : heap[r].kind = "_Composed" => AllComposable(heap, heap[r].w)

\* _Composed(seq) succeeds exactly when every element is a _Composable, and
\* otherwise raises TypeError naming the first that is not
ConstructionChecks ==
    call.op = "_Composed" =>
        IF AllComposable(heap, call.args.seq)
        THEN call.status = "ok" /\ heap[call.ret].w = call.args.seq
        ELSE Failed("TypeError") /\ call.err = FirstOffending(heap, call.args.seq)

JoinChecks ==
    (call.op = "join" /\ ~AllComposable(heap, call.args.items)) =>
        Failed("TypeError") /\ call.err = FirstOffending(heap, call.args.items)

\* a field of the template is bound to a value that is no _Composable
RawBound ==
    /\ call.op = "format"
    /\ WellFormed(call.args.pieces)
    /\ \E i \in FieldsOf(call.args.pieces) :
           /\ Pieces[call.args.pieces[i]].name \in DOMAIN call.args.kwargs
           /\ ~IsComposable(heap[call.args.kwargs[Pieces[call.args.pieces[i]].name]])

\* C7 as stated: _Composed, format with a raw value bound to a field in use,
\* and join over an input with a raw value all raise TypeError naming the
\* first offending element and return nothing; no raw value is ever an item.
C7_Original ==
    /\ OnlyFragmentsInSequences
    /\ ConstructionChecks
    /\ JoinChecks
    /\ RawBound =>
           /\ Failed("TypeError")
           /\ Stopping(call.args.pieces, call.args.kwargs) = {} =>
                  call.err = FirstOffending(heap, BoundValues(call.args.pieces, call.args.kwargs))

\* C7 as amended: the same for _Composed and join; a format with a raw value
\* bound to a field in use always fails and returns nothing, with the
\* TypeError naming the first offending element when every field of the
\* template is supported and bound (otherwise the ValueError or KeyError of
\* the first field that is not is raised).
C7_NoRawItems ==
    /\ OnlyFragmentsInSequences
    /\ ConstructionChecks
    /\ JoinChecks
    /\ RawBound =>
           /\ call.status # "ok" /\ call.ret = 0 /\ heap = SeedHeap
           /\ Stopping(call.args.pieces, call.args.kwargs) = {} =>
                  /\ Failed("TypeError")
                  /\ call.err = FirstOffending(heap, BoundValues(call.args.pieces, call.args.kwargs))

C7_Witness ==
    /\ RawBound
    /\ call.args.pieces = <<5, 1, 4>>
    /\ call.args.kwargs = Kwargs(5, 6)
    /\ Failed("TypeError")
    /\ call.err = 6

\* C8 as stated: Placeholder(name) of a string is constructed exactly when
\* the name is not empty, starts with a letter or an underscore and goes on
\* with letters, digits and underscores, and raises ValueError otherwise; a
\* Placeholder renders to a colon followed by its name.
C8_Original == PlaceholderAccepts(ValidName(call.args.name.w))

\* C8 as amended: the same with the valid names being the Python
\* identifiers: the characters after the first are those of XID_Continue,
\* which holds characters that are no letter, digit or underscore.
C8_Placeholder == PlaceholderAccepts(PythonIdentifier(call.args.name.w))

C8_Witness ==
    /\ call.op = "Placeholder"
    /\ call.args.name = PyStr(<<"_", MiddleDot, "1">>)
    /\ rendered.status = "ok"
    /\ rendered.val = PyStr(<<":", "_", MiddleDot, "1">>)

\* C9: a rendering of a fragment that a constructor, format or join returned
\* never raises and returns a str, however deep the Sequences are nested.
C9_RenderNeverFails ==
    RenderDone => rendered.status = "ok" /\ IsStr(rendered.val)

\* the outermost of MaxDeep - Len(SeedHeap) nested Sequences, each returned
\* by a successful _Composed call, was rendered
C9_Witness ==
    /\ call.op = "_Composed"
    /\ call.status = "ok"
    /\ Len(heap) = MaxDeep
    /\ rendered.ref = call.ret
    /\ RenderDone

\* C10: over a one-shot producer of N fragments, join asks for one iterator,
\* is handed each element once and in order, never starts over, leaves the
\* producer exhausted, and returns the Sequence of max(0, 2N-1) items.
C10_JoinSinglePass ==
    (/\ call.op = "join"
     /\ call.args.kind = "generator"
     /\ AllComposable(heap, call.args.items)) =>
        LET n == Len(call.args.items)
        IN  /\ call.prod.iters = 1
            /\ call.prod.log = call.args.items
            /\ call.prod.nexts = n + 1
            /\ call.prod.pos = n
            /\ call.prod.finished
            /\ call.status = "ok"
            /\ Len(heap[call.ret].w) = IF n = 0 THEN 0 ELSE 2 * n - 1

C10_Witness ==
    /\ call.op = "join"
    /\ call.args.kind = "generator"
    /\ call.args.items = <<3, 4, 3>>
    /\ call.prod.finished
    /\ call.prod.nexts = 4
    /\ call.status = "ok"

====
